---- MODULE Spec2Model ----
(***************************************************************************)
(* Model of the Mersenne Twister random plugin: the RandomEngine class     *)
(* (seed, std::mt19937 generator, GeneratedCount), the operations it       *)
(* offers, and the subsystem operations that replace the whole engine.     *)
(*                                                                         *)
(* Representation choices                                                  *)
(*  - A 32-bit quantity or a generator position is written <<a, b>> and    *)
(*    stands for a * 2^32 + b with b small (|b| < 2^31).  2^32 - 1 is      *)
(*    <<1, -1>>.  Addition is componentwise and exact; reduction modulo    *)
(*    2^32 (Wrap32) is exact as well, so uint32 arithmetic keeps its       *)
(*    width although no number above 2^31 is ever written out.             *)
(*  - std::mt19937 is a black box that is a fixed function of the seed it  *)
(*    was constructed with and of the number of words taken from it.  Its  *)
(*    state is [seed, pos]; the word at a position is MT(seed, pos).  The  *)
(*    word range is scaled from 2^32 down to WordCount.                    *)
(*  - A float is an integer number of grid units, One units making 1.0f;   *)
(*    float arithmetic rounds to the nearest grid point, ties to even.     *)
(***************************************************************************)
EXTENDS Integers, Sequences, FiniteSets, TLC

(* ------------------------------- state -------------------------------- *)

VARIABLES
    Random,     \* the engine under observation: UTwisterRandomSubsystem::Random
                \* or URandomEngineObject::Engine
    Twin,       \* a second engine, constructed with the same seed as Random
    call,       \* the last operation invoked on Random: [op, args]
    prev,       \* Random as it was just before that operation
    out,        \* <<operation, what it returned>> ("void" when it returns nothing)
    outTwin,    \* the same pair for the operation as run on Twin
    lag,        \* TRUE while Twin has not yet been fed the last operation
    Local       \* per thread, the frames of the static calls in progress

vars == <<Random, Twin, call, prev, out, outTwin, lag, Local>>

(* ------------------------------ bounds -------------------------------- *)

\* seeds are 0 .. MaxSeed
MaxSeed == 1

\* generator positions explored are a * 2^32 + b with b <= MaxPos
MaxPos == 14

\* ... and, from 2^32 - 1 on, with a <= MaxWraps and b <= MaxOver
MaxWraps == 1

MaxOver == 1

(* ---------------------- scaled program constants ----------------------- *)

\* number of distinct words std::mt19937 produces (2^32, scaled)
WordCount == 8

\* grid units per 1.0f
One == 24

\* the largest int32
INT32_MAX == 2147483647

\* the number of 32-bit words that one scaled word stands for: 2^32 / WordCount
WordUnit == 2 * ((INT32_MAX \div WordCount) + 1)

Seeds == 0 .. MaxSeed

\* the threads that call static operations
Threads == {1, 2}

(* --------------------- 32-bit and position arithmetic ------------------ *)

U32(n) == <<0, n>>

\* UINT32_MAX = 2^32 - 1
UINT32_MAX == <<1, -1>>

Add(x, y) == <<x[1] + y[1], x[2] + y[2]>>

Less(x, y) == x[1] < y[1] \/ (x[1] = y[1] /\ x[2] < y[2])

LessEq(x, y) == x = y \/ Less(x, y)

\* reduction modulo 2^32: a * 2^32 + b is congruent to b, and a negative b
\* stands for 2^32 + b
Wrap32(x) == IF x[2] >= 0 THEN <<0, x[2]>> ELSE <<1, x[2]>>

\* uint32 addition
Add32(x, y) == Wrap32(Add(x, y))

\* uint32 subtraction
Sub32(x, y) == Wrap32(<<x[1] - y[1], x[2] - y[2]>>)

\* int32 addition.  Signed overflow is undefined; the sum is taken to wrap
\* around modulo 2^32 as two's-complement hardware addition does.
AddInt32(a, b) ==
    IF b > 0 /\ a > INT32_MAX - b
    THEN (a - INT32_MAX - 1) + (b - INT32_MAX - 1)
    ELSE IF b < 0 /\ a < (-INT32_MAX - 1) - b
         THEN (a + INT32_MAX + 1) + (b + INT32_MAX + 1)
         ELSE a + b

(* --------------------------- float arithmetic -------------------------- *)

Abs(x) == IF x < 0 THEN -x ELSE x

\* n / d (d > 0) rounded to the nearest integer, ties to even
RoundDiv(n, d) ==
    LET m == Abs(n)
        q == m \div d
        r == m % d
        up == 2 * r > d \/ (2 * r = d /\ q % 2 = 1)
        v == IF up THEN q + 1 ELSE q
    IN  IF n < 0 THEN -v ELSE v

\* float product of two grid values
FMul(x, y) == RoundDiv(x * y, One)

\* FMath::Clamp
Clamp(X, Min, Max) == IF X < Min THEN Min ELSE IF X < Max THEN X ELSE Max

\* FMath::Max
FMax(a, b) == IF a < b THEN b ELSE a

(* ----------------------------- std::mt19937 ---------------------------- *)

\* fixed scrambling table of the stream
Scramble == <<0, 7, 1, 5, 2, 0, 6, 3, 4, 1, 7, 2, 5, 3, 6, 4>>

\* the word the generator seeded with seed produces at position pos
MT(seed, pos) ==
    LET idx == pos[2] + 1 + 5 * pos[1]
    IN  (3 * seed + Scramble[(idx % Len(Scramble)) + 1] + (idx \div Len(Scramble)))
        % WordCount

\* std::mt19937(seed)
mt19937(seed) == [seed |-> seed, pos |-> U32(0)]

\* Generator(): the next word
Word(G) == MT(G.seed, G.pos)

\* the generator after one word was taken
Next1(G) == [G EXCEPT !.pos = Add(@, U32(1))]

\* Generator.discard(z)
discard(G, z) == [G EXCEPT !.pos = Add(@, z)]

(* ------------------------ standard distributions ----------------------- *)

\* a distribution over the half-open range [Min, Max): the word is reduced
\* modulo Max - Min, so that Max is never produced
uniform_int_half_open(G, Min, Max) ==
    [G |-> Next1(G),
     r |-> IF Max = Min THEN Min ELSE (Word(G) % (Max - Min)) + Min]

\* std::uniform_int_distribution<int32>(Min, Max)(G), for Min <= Max.  The
\* word is divided by scaling, the number of words per result, and words at
\* or above the largest multiple of the range are rejected and another word
\* is taken.  For a range of at most WordCount values the scaled word is
\* used; for a wider range the word at full width, Word(G) * WordUnit, with
\* scaling = (2^32 - 1) \div range.
RECURSIVE uniform_int_distribution(_, _, _)
uniform_int_distribution(G, Min, Max) ==
    LET uerange == Max - Min + 1
    IN  IF uerange > WordCount
        THEN LET scaling == 2 * (INT32_MAX \div uerange)
                            + ((2 * (INT32_MAX % uerange) + 1) \div uerange)
                 ret == Word(G) * (WordUnit \div scaling)
                        + ((Word(G) * (WordUnit % scaling)) \div scaling)
             IN  IF ret >= uerange
                 THEN uniform_int_distribution(Next1(G), Min, Max)
                 ELSE [G |-> Next1(G), r |-> ret + Min]
        ELSE LET scaling == WordCount \div uerange
                 past == uerange * scaling
                 ret == Word(G)
             IN  IF ret >= past
                 THEN uniform_int_distribution(Next1(G), Min, Max)
                 ELSE [G |-> Next1(G), r |-> ret \div scaling + Min]

\* std::uniform_real_distribution<float>(Min, Max)(G): one word w gives the
\* canonical value w / WordCount in [0, 1), and the result is
\* (Max - Min) * canonical + Min in float arithmetic
uniform_real_distribution(G, Min, Max) ==
    [G |-> Next1(G), r |-> RoundDiv((Max - Min) * Word(G), WordCount) + Min]

\* sqrt(-2 ln(r2) / r2) in grid units, for r2 = k / WordCount^2
PolarFactor(k) ==
    CASE k = 4 -> 226 [] k = 8 -> 138 [] k = 16 -> 80 [] k = 20 -> 65 [] k = 32 -> 40
      [] k = 36 -> 34 [] k = 40 -> 29 [] k = 52 -> 17 [] OTHER -> 0

\* std::normal_distribution<float>(Mean, StdDev)(G) on a distribution object
\* made for this one call: the polar method takes two words per attempt and
\* repeats until the point (x, y) lies in the unit disc and is not the origin
RECURSIVE normal_distribution(_, _, _)
normal_distribution(G, Mean, StdDev) ==
    LET x == 2 * Word(G) - WordCount
        G1 == Next1(G)
        y == 2 * Word(G1) - WordCount
        G2 == Next1(G1)
        r2 == x * x + y * y
    IN  IF r2 > WordCount * WordCount \/ r2 = 0
        THEN normal_distribution(G2, Mean, StdDev)
        ELSE [G |-> G2,
              r |-> FMul(RoundDiv(y * PolarFactor(r2), WordCount), StdDev) + Mean]

(* ----------------------------- RandomEngine ---------------------------- *)

\* RandomEngine::RandomEngine(int32 InSeed)
RandomEngine(InSeed) ==
    [Seed |-> InSeed, Generator |-> mt19937(InSeed), GeneratedCount |-> U32(0)]

\* RandomEngine::GetRootSeed
GetRootSeed(E) == E.Seed

\* RandomEngine::GetCurrentState
GetCurrentState(E) == E.GeneratedCount

\* GeneratedCount++
Counted(E) == [E EXCEPT !.GeneratedCount = Add32(@, U32(1))]

\* RandInt drawing from one generator shared by all engines (a static
\* Generator) instead of the engine's own
RandIntSharedGenerator(E, Min, Max) ==
    LET d == uniform_int_distribution(Random.Generator, Min, Max)
    IN  [E |-> [Counted(E) EXCEPT !.Generator = d.G], r |-> d.r]

\* RandomEngine::RandInt
RandInt(E, Min, Max) ==
    LET d == uniform_int_distribution(E.Generator, Min, Max)
    IN  [E |-> [Counted(E) EXCEPT !.Generator = d.G], r |-> d.r]

\* RandomEngine::RandFloat
RandFloat(E, Min, Max) ==
    LET d == uniform_real_distribution(E.Generator, Min, Max)
    IN  [E |-> [Counted(E) EXCEPT !.Generator = d.G], r |-> d.r]

\* the sampling loop keeping a sample that is as close as the best one so
\* far: among equally close samples the last drawn wins
RECURSIVE BiasedLoopLastWins(_, _, _, _, _, _, _, _)
BiasedLoopLastWins(E, Min, Max, ClampedBias, Force, i, BestValue, BestDistance) ==
    IF i >= Force
    THEN [E |-> E, r |-> BestValue]
    ELSE LET d == uniform_real_distribution(E.Generator, Min, Max)
             E1 == [Counted(E) EXCEPT !.Generator = d.G]
             CurrentValue == d.r
             CurrentDistance == Abs(CurrentValue - ClampedBias)
         IN  IF CurrentDistance <= BestDistance
             THEN BiasedLoopLastWins(E1, Min, Max, ClampedBias, Force, i + 1,
                                     CurrentValue, CurrentDistance)
             ELSE BiasedLoopLastWins(E1, Min, Max, ClampedBias, Force, i + 1,
                                     BestValue, BestDistance)

\* the sampling loop of RandomEngine::RandFloatBiased: samples i .. Force - 1
RECURSIVE BiasedLoop(_, _, _, _, _, _, _, _)
BiasedLoop(E, Min, Max, ClampedBias, Force, i, BestValue, BestDistance) ==
    IF i >= Force
    THEN [E |-> E, r |-> BestValue]
    ELSE LET d == uniform_real_distribution(E.Generator, Min, Max)
             E1 == [Counted(E) EXCEPT !.Generator = d.G]
             CurrentValue == d.r
             CurrentDistance == Abs(CurrentValue - ClampedBias)
         IN  IF CurrentDistance < BestDistance
             THEN BiasedLoop(E1, Min, Max, ClampedBias, Force, i + 1,
                             CurrentValue, CurrentDistance)
             ELSE BiasedLoop(E1, Min, Max, ClampedBias, Force, i + 1,
                             BestValue, BestDistance)

\* RandFloatBiased without the early return for a force of 1 and with the
\* sampling loop started at i = 0: one sample too many
RandFloatBiasedExtraSample(E, Min, Max, BiasedToward, BiasForce) ==
    LET ClampedBias == Clamp(BiasedToward, Min, Max)
        ClampedBiasForce == FMax(1, BiasForce)
        d == uniform_real_distribution(E.Generator, Min, Max)
        E1 == [Counted(E) EXCEPT !.Generator = d.G]
    IN  BiasedLoop(E1, Min, Max, ClampedBias, ClampedBiasForce, 0,
                   d.r, Abs(d.r - ClampedBias))

\* RandomEngine::RandFloatBiased
RandFloatBiased(E, Min, Max, BiasedToward, BiasForce) ==
    LET ClampedBias == Clamp(BiasedToward, Min, Max)
        ClampedBiasForce == FMax(1, BiasForce)
        d == uniform_real_distribution(E.Generator, Min, Max)
        E1 == [Counted(E) EXCEPT !.Generator = d.G]
    IN  IF ClampedBiasForce = 1
        THEN [E |-> E1, r |-> d.r]
        ELSE BiasedLoop(E1, Min, Max, ClampedBias, ClampedBiasForce, 1,
                        d.r, Abs(d.r - ClampedBias))

\* RandBool comparing with <= instead of <: a draw of exactly 0 makes
\* RandBool(0) true
RandBoolAtMost(E, Probability) ==
    LET ClampedProbability == Clamp(Probability, 0, One)
        d == uniform_real_distribution(E.Generator, 0, One)
    IN  [E |-> [Counted(E) EXCEPT !.Generator = d.G],
         r |-> d.r <= ClampedProbability]

\* RandomEngine::RandBool
RandBool(E, Probability) ==
    LET ClampedProbability == Clamp(Probability, 0, One)
        d == uniform_real_distribution(E.Generator, 0, One)
    IN  [E |-> [Counted(E) EXCEPT !.Generator = d.G],
         r |-> d.r < ClampedProbability]

\* RandBoolBiased with the two bias targets exchanged: it biases toward the
\* outcome that was not asked for
RandBoolBiasedTargetsSwapped(E, Probability, BiasTowardTrue, BiasForce) ==
    LET ClampedProbability == Clamp(Probability, 0, One)
        ClampedBiasForce == FMax(1, BiasForce)
        BiasTarget == IF BiasTowardTrue
                      THEN ClampedProbability
                           + FMul(One - ClampedProbability, One \div 2)
                      ELSE FMul(ClampedProbability, One \div 2)
        b == RandFloatBiased(E, 0, One, BiasTarget, ClampedBiasForce)
    IN  IF ClampedBiasForce = 1
        THEN RandBool(E, ClampedProbability)
        ELSE [E |-> b.E, r |-> b.r < ClampedProbability]

\* RandomEngine::RandBoolBiased
RandBoolBiased(E, Probability, BiasTowardTrue, BiasForce) ==
    LET ClampedProbability == Clamp(Probability, 0, One)
        ClampedBiasForce == FMax(1, BiasForce)
        BiasTarget == IF BiasTowardTrue
                      THEN FMul(ClampedProbability, One \div 2)
                      ELSE ClampedProbability
                           + FMul(One - ClampedProbability, One \div 2)
        b == RandFloatBiased(E, 0, One, BiasTarget, ClampedBiasForce)
    IN  IF ClampedBiasForce = 1
        THEN RandBool(E, ClampedProbability)
        ELSE [E |-> b.E, r |-> b.r < ClampedProbability]

\* RandomEngine::RandGaussian
RandGaussian(E, Mean, StdDev) ==
    LET d == normal_distribution(E.Generator, Mean, StdDev)
    IN  [E |-> [Counted(E) EXCEPT !.Generator = d.G], r |-> d.r]

\* (Range * Spread) / 6.0f
SpreadStdDev(Min, Max, Spread) == RoundDiv(FMul(Max - Min, Spread), 6)

\* the retry loop without the final FMath::Clamp: when every attempt misses
\* the last draw is returned as it is
RECURSIVE ClampedLoopNoClamp(_, _, _, _, _, _, _, _)
ClampedLoopNoClamp(E, Min, Max, ClampedBias, StdDev, MaxAttempts, i, Value) ==
    IF i >= MaxAttempts
    THEN [E |-> E, r |-> Value]
    ELSE LET g == RandGaussian(E, ClampedBias, StdDev)
         IN  IF g.r >= Min /\ g.r <= Max
             THEN g
             ELSE ClampedLoopNoClamp(g.E, Min, Max, ClampedBias, StdDev,
                                     MaxAttempts, i + 1, g.r)

\* the retry loop of RandomEngine::RandGaussianClamped: attempts i ..
\* MaxAttempts - 1, Value holding the last draw
RECURSIVE ClampedLoop(_, _, _, _, _, _, _, _)
ClampedLoop(E, Min, Max, ClampedBias, StdDev, MaxAttempts, i, Value) ==
    IF i >= MaxAttempts
    THEN [E |-> E, r |-> Clamp(Value, Min, Max)]
    ELSE LET g == RandGaussian(E, ClampedBias, StdDev)
         IN  IF g.r >= Min /\ g.r <= Max
             THEN g
             ELSE ClampedLoop(g.E, Min, Max, ClampedBias, StdDev, MaxAttempts,
                              i + 1, g.r)

\* RandomEngine::RandGaussianClamped
RandGaussianClamped(E, Min, Max, Bias, Spread, Attempts) ==
    ClampedLoop(E, Min, Max, Clamp(Bias, Min, Max),
                SpreadStdDev(Min, Max, Spread), FMax(Attempts, 1), 0, 0)

\* RandGaussianTruncated ending, after 5 misses, like RandGaussianClamped: the
\* last draw clamped into the range and no uniform draw
RandGaussianTruncatedClamping(E, Min, Max, Bias, Spread) ==
    ClampedLoop(E, Min, Max, Clamp(Bias, Min, Max),
                SpreadStdDev(Min, Max, Spread), 5, 0, 0)

\* the retry loop of RandomEngine::RandGaussianTruncated
RECURSIVE TruncatedLoop(_, _, _, _, _, _)
TruncatedLoop(E, Min, Max, ClampedBias, StdDev, i) ==
    IF i >= 5
    THEN RandFloat(E, Min, Max)
    ELSE LET g == RandGaussian(E, ClampedBias, StdDev)
         IN  IF g.r >= Min /\ g.r <= Max
             THEN g
             ELSE TruncatedLoop(g.E, Min, Max, ClampedBias, StdDev, i + 1)

\* RandomEngine::RandGaussianTruncated
RandGaussianTruncated(E, Min, Max, Bias, Spread) ==
    TruncatedLoop(E, Min, Max, Clamp(Bias, Min, Max),
                  SpreadStdDev(Min, Max, Spread), 0)

\* the first loop of RandomEngine::RandWeighted: the sum of the positive
\* weights from index i (1-based) on
RECURSIVE TotalWeightFrom(_, _)
TotalWeightFrom(Weights, i) ==
    IF i > Len(Weights)
    THEN 0
    ELSE (IF Weights[i] > 0 THEN Weights[i] ELSE 0) + TotalWeightFrom(Weights, i + 1)

\* the selection loop without the test Weights[i] > 0.0f: every entry is
\* accumulated and compared
RECURSIVE WeightedScanAll(_, _, _, _)
WeightedScanAll(Weights, RandomValue, i, CurrentWeight) ==
    IF i >= Len(Weights)
    THEN Len(Weights) - 1
    ELSE IF RandomValue <= CurrentWeight + Weights[i + 1]
         THEN i
         ELSE WeightedScanAll(Weights, RandomValue, i + 1,
                              CurrentWeight + Weights[i + 1])

\* the second loop of RandomEngine::RandWeighted, from 0-based index i on
RECURSIVE WeightedScan(_, _, _, _)
WeightedScan(Weights, RandomValue, i, CurrentWeight) ==
    IF i >= Len(Weights)
    THEN Len(Weights) - 1
    ELSE IF Weights[i + 1] > 0
         THEN IF RandomValue <= CurrentWeight + Weights[i + 1]
              THEN i
              ELSE WeightedScan(Weights, RandomValue, i + 1,
                                CurrentWeight + Weights[i + 1])
         ELSE WeightedScan(Weights, RandomValue, i + 1, CurrentWeight)

\* RandWeighted making its draw before it looks at the total weight
RandWeightedDrawFirst(E, Weights) ==
    LET TotalWeight == TotalWeightFrom(Weights, 1)
        f == RandFloat(E, 0, TotalWeight)
    IN  IF Len(Weights) = 0 \/ TotalWeight <= 0
        THEN [E |-> f.E, r |-> -1]
        ELSE [E |-> f.E, r |-> WeightedScan(Weights, f.r, 0, 0)]

\* RandomEngine::RandWeighted
RandWeighted(E, Weights) ==
    LET TotalWeight == TotalWeightFrom(Weights, 1)
        f == RandFloat(E, 0, TotalWeight)
    IN  IF Len(Weights) = 0
        THEN [E |-> E, r |-> -1]
        ELSE IF TotalWeight <= 0
             THEN [E |-> E, r |-> -1]
             ELSE [E |-> f.E, r |-> WeightedScan(Weights, f.r, 0, 0)]

\* the loop of RandomEngine::RollDice: dice i .. NumDice - 1
RECURSIVE DiceLoop(_, _, _, _, _)
DiceLoop(E, NumDice, Sides, i, Total) ==
    IF i >= NumDice
    THEN [E |-> E, r |-> Total]
    ELSE LET d == RandInt(E, 1, Sides)
         IN  DiceLoop(d.E, NumDice, Sides, i + 1, AddInt32(Total, d.r))

\* RollDice validating NumDice only and rolling dice of at least one side
RollDiceSidesFloor(E, NumDice, Sides) ==
    IF NumDice <= 0
    THEN [E |-> E, r |-> 0]
    ELSE DiceLoop(E, NumDice, FMax(Sides, 1), 0, 0)

\* RandomEngine::RollDice
RollDice(E, NumDice, Sides) ==
    IF NumDice <= 0 \/ Sides <= 0
    THEN [E |-> E, r |-> 0]
    ELSE DiceLoop(E, NumDice, Sides, 0, 0)

\* the loop of RandomEngine::RollDiceArray, from 1-based index i on
RECURSIVE DiceArrayLoop(_, _, _, _)
DiceArrayLoop(E, DiceArray, i, Total) ==
    IF i > Len(DiceArray)
    THEN [E |-> E, r |-> Total]
    ELSE IF DiceArray[i] >= 1
         THEN LET d == RandInt(E, 1, DiceArray[i])
              IN  DiceArrayLoop(d.E, DiceArray, i + 1, AddInt32(Total, d.r))
         ELSE DiceArrayLoop(E, DiceArray, i + 1, Total)

\* RandomEngine::RollDiceArray
RollDiceArray(E, DiceArray) ==
    IF Len(DiceArray) = 0
    THEN [E |-> E, r |-> 0]
    ELSE DiceArrayLoop(E, DiceArray, 1, 0)

\* Discard skipping the words without counting them
DiscardUncounted(E, Count) == [E EXCEPT !.Generator = discard(@, Count)]

\* RandomEngine::Discard
Discard(E, Count) ==
    [E EXCEPT !.Generator = discard(@, Count),
              !.GeneratedCount = Add32(@, Count)]

\* Reset zeroing the count but leaving the generator where it stands
ResetCountOnly(E) == [E EXCEPT !.GeneratedCount = U32(0)]

\* Reset reseeding with a default seed instead of the stored one
ResetToDefaultSeed(E) == RandomEngine(0)

\* RandomEngine::Reset
Reset(E) ==
    [E EXCEPT !.Generator = mt19937(E.Seed), !.GeneratedCount = U32(0)]

\* RandomEngine::Advance
Advance(E, Steps) ==
    [E EXCEPT !.Generator = discard(@, Steps),
              !.GeneratedCount = Add32(@, Steps)]

\* JumpToState resetting and advancing whatever the current count is
JumpToStateAlwaysReset(E, TargetState) == Advance(Reset(E), TargetState)

\* RandomEngine::JumpToState
JumpToState(E, TargetState) ==
    IF E.GeneratedCount = TargetState
    THEN E
    ELSE IF Less(E.GeneratedCount, TargetState)
         THEN Advance(E, Sub32(TargetState, E.GeneratedCount))
         ELSE Advance(Reset(E), TargetState)

(* ------------------- RandomUtility and RandomString -------------------- *)

\* TArray::Swap; array indices count from 0
Swap(Array, i, j) ==
    [k \in 1 .. Len(Array) |->
        IF k = i + 1 THEN Array[j + 1]
        ELSE IF k = j + 1 THEN Array[i + 1] ELSE Array[k]]

\* a shuffle drawing every j from the whole array instead of from [0, i]
RECURSIVE ShuffleLoopWholeRange(_, _, _)
ShuffleLoopWholeRange(E, Array, i) ==
    IF i > 0
    THEN LET d == RandInt(E, 0, Len(Array) - 1)
         IN  ShuffleLoopWholeRange(d.E, Swap(Array, i, d.r), i - 1)
    ELSE [E |-> E, r |-> Array]

\* the shuffle loop running down to index 0: one more draw, RandInt(0, 0)
RECURSIVE ShuffleLoopToZero(_, _, _)
ShuffleLoopToZero(E, Array, i) ==
    IF i >= 0
    THEN LET d == RandInt(E, 0, i)
         IN  ShuffleLoopToZero(d.E, Swap(Array, i, d.r), i - 1)
    ELSE [E |-> E, r |-> Array]

\* the loop of ShuffleArray, ShuffleArrayObject and ShuffleString, about to
\* run for index i
RECURSIVE ShuffleLoop(_, _, _)
ShuffleLoop(E, Array, i) ==
    IF i > 0
    THEN LET d == RandInt(E, 0, i)
         IN  ShuffleLoop(d.E, Swap(Array, i, d.r), i - 1)
    ELSE [E |-> E, r |-> Array]

\* RandomUtility::ShuffleArray; r is the array as the call leaves it
ShuffleArray(E, Array) == ShuffleLoop(E, Array, Len(Array) - 1)

\* RandomUtility::ShuffleArrayObject
ShuffleArrayObject(E, Array) == ShuffleLoop(E, Array, Len(Array) - 1)

\* RandomString::ShuffleString; a string is the array of its characters
ShuffleString(E, InputString) ==
    IF InputString = <<>>
    THEN [E |-> E, r |-> <<>>]
    ELSE ShuffleLoop(E, InputString, Len(InputString) - 1)

\* T{} for a numeric element type
DefaultElement == 0

\* the object id of no object
nullptr == 0

\* RandomUtility::RandArrayElement
RandArrayElement(E, Array) ==
    IF Len(Array) = 0
    THEN [E |-> E, r |-> DefaultElement]
    ELSE LET RandomIndex == RandInt(E, 0, Len(Array) - 1)
         IN  [E |-> RandomIndex.E, r |-> Array[RandomIndex.r + 1]]

\* RandomUtility::RandArrayElementObject
RandArrayElementObject(E, Array) ==
    IF Len(Array) = 0
    THEN [E |-> E, r |-> nullptr]
    ELSE LET RandomIndex == RandInt(E, 0, Len(Array) - 1)
         IN  [E |-> RandomIndex.E, r |-> Array[RandomIndex.r + 1]]

\* a selection that draws its index before it looks at the length of the
\* array: an empty array costs a draw
GetRandomSelectionDrawFirst(E, ObjectArray) ==
    LET Num == Len(ObjectArray)
        RandomIndex == RandInt(E, 0, IF Num = 0 THEN 0 ELSE Num - 1)
    IN  [E |-> RandomIndex.E,
         r |-> IF Num = 0 THEN nullptr ELSE ObjectArray[RandomIndex.r + 1]]

\* URandomEngineObject::GetRandomSelection
GetRandomSelection(E, ObjectArray) ==
    LET Num == Len(ObjectArray)
        RandomIndex == RandInt(E, 0, Num - 1)
    IN  IF Num = 0
        THEN [E |-> E, r |-> nullptr]
        ELSE [E |-> RandomIndex.E, r |-> ObjectArray[RandomIndex.r + 1]]

\* 2.0f * PI
TwoPi == RoundDiv(710 * One, 113)

\* The geometric samplers compute their result from the floats they draw by
\* FMath::Sqrt, Pow, Cos and Sin, which take no part in the drawing: r holds
\* the drawn floats and the radius, in the order of the code.

\* RandomUtility::RandVectorNormalized
RandVectorNormalized(E) ==
    LET Theta == RandFloat(E, 0, TwoPi)
        CosPhiPolar == RandFloat(Theta.E, -One, One)
    IN  [E |-> CosPhiPolar.E, r |-> <<Theta.r, CosPhiPolar.r>>]

\* a sampler of points inside the circle that draws a point of the square
\* and draws again while the point lies outside the circle
RECURSIVE RandVector2DInCircleRejection(_, _)
RandVector2DInCircleRejection(E, Radius) ==
    LET X == RandFloat(E, -One, One)
        Y == RandFloat(X.E, -One, One)
    IN  IF X.r * X.r + Y.r * Y.r > One * One
        THEN RandVector2DInCircleRejection(Y.E, Radius)
        ELSE [E |-> Y.E, r |-> <<X.r, Y.r, Radius>>]

\* RandomUtility::RandVector2DInCircle
RandVector2DInCircle(E, Radius) ==
    LET Angle == RandFloat(E, 0, TwoPi)
        R == RandFloat(Angle.E, 0, One)
    IN  [E |-> R.E, r |-> <<Angle.r, R.r, Radius>>]

\* RandomUtility::RandVector2DOnCircle
RandVector2DOnCircle(E, Radius) ==
    LET Angle == RandFloat(E, 0, TwoPi)
    IN  [E |-> Angle.E, r |-> <<Angle.r, Radius>>]

\* RandomUtility::RandPointInSphere
RandPointInSphere(E, Radius) ==
    LET Theta == RandFloat(E, 0, TwoPi)
        CosPhiPolar == RandFloat(Theta.E, -One, One)
        R == RandFloat(CosPhiPolar.E, 0, One)
    IN  [E |-> R.E, r |-> <<Theta.r, CosPhiPolar.r, R.r, Radius>>]

\* RandomUtility::RandPointOnSphere
RandPointOnSphere(E, Radius) ==
    LET Theta == RandFloat(E, 0, TwoPi)
        CosPhiPolar == RandFloat(Theta.E, -One, One)
    IN  [E |-> CosPhiPolar.E, r |-> <<Theta.r, CosPhiPolar.r, Radius>>]

\* RandomUtility::RandPointInCircle
RandPointInCircle(E, Radius) ==
    LET Point2D == RandVector2DInCircle(E, Radius)
    IN  [E |-> Point2D.E, r |-> Point2D.r \o <<0>>]

\* RandomUtility::RandPointOnCircle
RandPointOnCircle(E, Radius) ==
    LET Point2D == RandVector2DOnCircle(E, Radius)
    IN  [E |-> Point2D.E, r |-> Point2D.r \o <<0>>]

\* RandomUtility::RandQuat
RandQuat(E) ==
    LET U1 == RandFloat(E, 0, One)
        U2 == RandFloat(U1.E, 0, TwoPi)
        U3 == RandFloat(U2.E, 0, TwoPi)
    IN  [E |-> U3.E, r |-> <<U1.r, U2.r, U3.r>>]

\* RandomUtility::RandRotator
RandRotator(E) ==
    LET Pitch == RandFloat(E, -90 * One, 90 * One)
        Yaw == RandFloat(Pitch.E, -180 * One, 180 * One)
        Roll == RandFloat(Yaw.E, -180 * One, 180 * One)
    IN  [E |-> Roll.E, r |-> <<Pitch.r, Yaw.r, Roll.r>>]

(* --------------------------- operation inputs -------------------------- *)

IntRanges == {<<0, 1>>, <<-1, 1>>, <<1, 6>>, <<3, 3>>}

FloatRanges == {<<0, One>>, <<0, 1>>, <<-One, One>>}

BiasedArgs ==
    {<<0, One, One \div 2, f>> : f \in {0, 1, 2, 3}}
    \cup {<<-One, One, 2 * One, f>> : f \in {1, 2}}

Probabilities == {-One, 0, One \div 3, One, 2 * One}

BoolBiasedArgs ==
    {<<One \div 3, b, f>> : b \in BOOLEAN, f \in {1, 3}}
    \cup {<<2 * One, TRUE, 0>>, <<2 * One, FALSE, 2>>}

GaussianArgs == {<<0, One>>, <<One, One \div 4>>}

ClampedArgs ==
    {<<0, One, One \div 2, s, a>> : s \in {One, 6 * One}, a \in {0, 1, 2, 3}}
    \cup {<<0, One, 2 * One, 6 * One, 2>>}

TruncatedArgs == {<<0, One, One \div 2, s>> : s \in {One, 6 * One, 12 * One}}

WeightArrays ==
    {<<>>, <<-One, -2 * One>>, <<0, -One>>, <<0, 0, 10 * One>>, <<One, 0, 2 * One>>}

DiceArgs ==
    {<<0, 6>>, <<2, 0>>, <<-1, 6>>, <<1, 6>>, <<3, 6>>, <<2, 4>>, <<2, INT32_MAX>>}

DiceArrays == {<<>>, <<6>>, <<4, 0, 6>>, <<0, -1>>, <<INT32_MAX, INT32_MAX>>}

Counts == {U32(0), U32(2), UINT32_MAX}

Targets == {U32(0), U32(1), U32(3), UINT32_MAX}

\* arrays of elements, of object ids and of characters
Arrays == {<<>>, <<1>>, <<1, 2>>, <<1, 2, 3>>, <<1, 1, 2>>}

CallsOf(name, argsets) == {[op |-> name, args |-> a] : a \in argsets}

DrawCalls ==
    CallsOf("RandInt", IntRanges) \cup CallsOf("RandFloat", FloatRanges)
    \cup CallsOf("RandFloatBiased", BiasedArgs)
    \cup CallsOf("RandBool", {<<p>> : p \in Probabilities})
    \cup CallsOf("RandBoolBiased", BoolBiasedArgs)
    \cup CallsOf("RandGaussian", GaussianArgs)
    \cup CallsOf("RandGaussianClamped", ClampedArgs)
    \cup CallsOf("RandGaussianTruncated", TruncatedArgs)
    \cup CallsOf("RandWeighted", {<<w>> : w \in WeightArrays})
    \cup CallsOf("RollDice", DiceArgs)
    \cup CallsOf("RollDiceArray", {<<d>> : d \in DiceArrays})

PositionCalls ==
    CallsOf("Discard", {<<n>> : n \in Counts})
    \cup CallsOf("Advance", {<<n>> : n \in Counts})
    \cup CallsOf("JumpToState", {<<t>> : t \in Targets})
    \cup CallsOf("Reset", {<<>>})

EngineCalls == DrawCalls \cup PositionCalls

\* the radius of a circle or sphere
Radii == {0, One}

RadiusCalls(name) == CallsOf(name, {<<Radius>> : Radius \in Radii})

ArrayCalls(name) == CallsOf(name, {<<a>> : a \in Arrays})

Void(E) == [E |-> E, r |-> "void"]

\* the engine and the return value after operation c is invoked on engine E
Apply(E, c) ==
    LET a == c.args
    IN  CASE c.op = "RandInt" -> RandInt(E, a[1], a[2])
          [] c.op = "RandFloat" -> RandFloat(E, a[1], a[2])
          [] c.op = "RandFloatBiased" -> RandFloatBiased(E, a[1], a[2], a[3], a[4])
          [] c.op = "RandBool" -> RandBool(E, a[1])
          [] c.op = "RandBoolBiased" -> RandBoolBiased(E, a[1], a[2], a[3])
          [] c.op = "RandGaussian" -> RandGaussian(E, a[1], a[2])
          [] c.op = "RandGaussianClamped" ->
                 RandGaussianClamped(E, a[1], a[2], a[3], a[4], a[5])
          [] c.op = "RandGaussianTruncated" ->
                 RandGaussianTruncated(E, a[1], a[2], a[3], a[4])
          [] c.op = "RandWeighted" -> RandWeighted(E, a[1])
          [] c.op = "RollDice" -> RollDice(E, a[1], a[2])
          [] c.op = "RollDiceArray" -> RollDiceArray(E, a[1])
          [] c.op = "Discard" -> Void(Discard(E, a[1]))
          [] c.op = "Advance" -> Void(Advance(E, a[1]))
          [] c.op = "JumpToState" -> Void(JumpToState(E, a[1]))
          [] c.op = "Reset" -> Void(Reset(E))
          [] c.op = "RandVectorNormalized" -> RandVectorNormalized(E)
          [] c.op = "RandVector2DInCircle" -> RandVector2DInCircle(E, a[1])
          [] c.op = "RandVector2DOnCircle" -> RandVector2DOnCircle(E, a[1])
          [] c.op = "RandPointInSphere" -> RandPointInSphere(E, a[1])
          [] c.op = "RandPointOnSphere" -> RandPointOnSphere(E, a[1])
          [] c.op = "RandPointInCircle" -> RandPointInCircle(E, a[1])
          [] c.op = "RandPointOnCircle" -> RandPointOnCircle(E, a[1])
          [] c.op = "RandQuat" -> RandQuat(E)
          [] c.op = "RandRotator" -> RandRotator(E)
          [] c.op = "RandArrayElement" -> RandArrayElement(E, a[1])
          [] c.op = "RandArrayElementObject" -> RandArrayElementObject(E, a[1])
          [] c.op = "GetRandomSelection" -> GetRandomSelection(E, a[1])
          [] c.op = "ShuffleArray" -> ShuffleArray(E, a[1])
          [] c.op = "ShuffleArrayObject" -> ShuffleArrayObject(E, a[1])
          [] c.op = "ShuffleString" -> ShuffleString(E, a[1])

\* the part of the position space that is explored
InWindow(pos) ==
    \/ pos[1] = 0 /\ pos[2] <= MaxPos
    \/ pos[1] >= 1 /\ pos[1] <= MaxWraps /\ pos[2] <= MaxOver

(* ------------------------------- actions ------------------------------- *)

\* operation c is invoked on Random
Invoke(c) ==
    LET res == Apply(Random, c)
    IN  /\ InWindow(res.E.Generator.pos)
        /\ Random' = res.E
        /\ out' = <<c.op, res.r>>
        /\ call' = c
        /\ prev' = Random
        /\ UNCHANGED <<Twin, outTwin, lag, Local>>

DoRandInt == \E c \in CallsOf("RandInt", IntRanges) : Invoke(c)

DoRandFloat == \E c \in CallsOf("RandFloat", FloatRanges) : Invoke(c)

DoRandFloatBiased == \E c \in CallsOf("RandFloatBiased", BiasedArgs) : Invoke(c)

DoRandBool == \E c \in CallsOf("RandBool", {<<p>> : p \in Probabilities}) : Invoke(c)

DoRandBoolBiased == \E c \in CallsOf("RandBoolBiased", BoolBiasedArgs) : Invoke(c)

DoRandGaussian == \E c \in CallsOf("RandGaussian", GaussianArgs) : Invoke(c)

DoRandGaussianClamped ==
    \E c \in CallsOf("RandGaussianClamped", ClampedArgs) : Invoke(c)

DoRandGaussianTruncated ==
    \E c \in CallsOf("RandGaussianTruncated", TruncatedArgs) : Invoke(c)

DoRandWeighted == \E c \in CallsOf("RandWeighted", {<<w>> : w \in WeightArrays}) : Invoke(c)

DoRollDice == \E c \in CallsOf("RollDice", DiceArgs) : Invoke(c)

DoRollDiceArray == \E c \in CallsOf("RollDiceArray", {<<d>> : d \in DiceArrays}) : Invoke(c)

DoDiscard == \E c \in CallsOf("Discard", {<<n>> : n \in Counts}) : Invoke(c)

DoAdvance == \E c \in CallsOf("Advance", {<<n>> : n \in Counts}) : Invoke(c)

DoJumpToState == \E c \in CallsOf("JumpToState", {<<t>> : t \in Targets}) : Invoke(c)

DoReset == Invoke([op |-> "Reset", args |-> <<>>])

DoRandVectorNormalized == Invoke([op |-> "RandVectorNormalized", args |-> <<>>])

DoRandVector2DInCircle == \E c \in RadiusCalls("RandVector2DInCircle") : Invoke(c)

DoRandVector2DOnCircle == \E c \in RadiusCalls("RandVector2DOnCircle") : Invoke(c)

DoRandPointInSphere == \E c \in RadiusCalls("RandPointInSphere") : Invoke(c)

DoRandPointOnSphere == \E c \in RadiusCalls("RandPointOnSphere") : Invoke(c)

DoRandPointInCircle == \E c \in RadiusCalls("RandPointInCircle") : Invoke(c)

DoRandPointOnCircle == \E c \in RadiusCalls("RandPointOnCircle") : Invoke(c)

DoRandQuat == Invoke([op |-> "RandQuat", args |-> <<>>])

DoRandRotator == Invoke([op |-> "RandRotator", args |-> <<>>])

DoRandArrayElement == \E c \in ArrayCalls("RandArrayElement") : Invoke(c)

DoRandArrayElementObject == \E c \in ArrayCalls("RandArrayElementObject") : Invoke(c)

DoGetRandomSelection == \E c \in ArrayCalls("GetRandomSelection") : Invoke(c)

DoShuffleArray == \E c \in ArrayCalls("ShuffleArray") : Invoke(c)

DoShuffleArrayObject == \E c \in ArrayCalls("ShuffleArrayObject") : Invoke(c)

DoShuffleString == \E c \in ArrayCalls("ShuffleString") : Invoke(c)

\* the whole engine is replaced by NewEngine
Replace(name, args, NewEngine) ==
    /\ Random' = NewEngine
    /\ out' = <<name, "void">>
    /\ call' = [op |-> name, args |-> args]
    /\ prev' = Random
    /\ UNCHANGED <<Twin, outTwin, lag, Local>>

\* SetSeed assigning only the seed field, so that the generator and the count
\* of the old engine survive
SetSeedKeepingState ==
    \E InSeed \in Seeds :
        Replace("SetSeed", <<InSeed>>, [Random EXCEPT !.Seed = InSeed])

\* UTwisterRandomSubsystem::SetSeed
SetSeed == \E InSeed \in Seeds : Replace("SetSeed", <<InSeed>>, RandomEngine(InSeed))

\* UTwisterRandomSubsystem::RerollSeed; StaticNewSeed returns whatever the
\* hardware entropy source gives
RerollSeed ==
    \E StaticNewSeed \in Seeds :
        Replace("RerollSeed", <<>>, RandomEngine(StaticNewSeed))

\* URandomEngineObject::InitializeWithSeed: a seed of 0 asks for a seed from
\* the entropy source
InitializeWithSeed ==
    \E InSeed \in Seeds, StaticNewSeed \in Seeds :
        Replace("InitializeWithSeed", <<InSeed>>,
                RandomEngine(IF InSeed = 0 THEN StaticNewSeed ELSE InSeed))

\* URandomEngineObject::CreateRandomEngineObject: a new object, initialized
\* by InitializeWithSeed(Seed)
CreateRandomEngineObject ==
    \E Seed \in Seeds, StaticNewSeed \in Seeds :
        Replace("CreateRandomEngineObject", <<Seed>>,
                RandomEngine(IF Seed = 0 THEN StaticNewSeed ELSE Seed))

\* the state after UTwisterRandomSubsystem::Initialize
Init ==
    /\ \E StaticNewSeed \in Seeds :
           /\ Random = RandomEngine(StaticNewSeed)
           /\ Twin = RandomEngine(StaticNewSeed)
    /\ call = [op |-> "Initialize", args |-> <<>>]
    /\ prev = Random
    /\ out = <<"Initialize", "void">>
    /\ outTwin = <<"Initialize", "void">>
    /\ lag = FALSE
    /\ Local = [t \in Threads |-> <<>>]

Next ==
    \/ DoRandInt
    \/ DoRandFloat
    \/ DoRandFloatBiased
    \/ DoRandBool
    \/ DoRandBoolBiased
    \/ DoRandGaussian
    \/ DoRandGaussianClamped
    \/ DoRandGaussianTruncated
    \/ DoRandWeighted
    \/ DoRollDice
    \/ DoRollDiceArray
    \/ DoDiscard
    \/ DoAdvance
    \/ DoJumpToState
    \/ DoReset
    \/ SetSeed
    \/ RerollSeed
    \/ InitializeWithSeed
    \/ CreateRandomEngineObject

Spec == Init /\ [][Next]_vars

(* ------------------- two engines fed the same calls ------------------- *)

\* two engines freshly constructed with the same seed
InitTwin ==
    /\ \E InSeed \in Seeds :
           /\ Random = RandomEngine(InSeed)
           /\ Twin = RandomEngine(InSeed)
    /\ call = [op |-> "RandomEngine", args |-> <<>>]
    /\ prev = Random
    /\ out = <<"RandomEngine", "void">>
    /\ outTwin = <<"RandomEngine", "void">>
    /\ lag = FALSE
    /\ Local = [t \in Threads |-> <<>>]

\* the next operation of the call sequence is invoked on Random
TwinLead ==
    /\ ~lag
    /\ \E c \in EngineCalls :
           LET res == Apply(Random, c)
           IN  /\ InWindow(res.E.Generator.pos)
               /\ Random' = res.E
               /\ out' = <<c.op, res.r>>
               /\ call' = c
               /\ prev' = Random
    /\ lag' = TRUE
    /\ UNCHANGED <<Twin, outTwin, Local>>

\* the same operation is invoked on Twin
TwinFollow ==
    /\ lag
    /\ LET res == Apply(Twin, call)
       IN  /\ Twin' = res.E
           /\ outTwin' = <<call.op, res.r>>
    /\ lag' = FALSE
    /\ UNCHANGED <<Random, call, prev, out, Local>>

NextTwin == TwinLead \/ TwinFollow

SpecTwin == InitTwin /\ [][NextTwin]_vars

(* ------------------- the engine of a utility object -------------------- *)

\* the state after RandomUtility::RandomUtility() or RandomUtility(InSeed),
\* the constructors of RandomString or the creation of a URandomEngineObject:
\* Random is the object's own Engine, which only the object's member
\* functions use
InitUtility ==
    /\ \E InSeed \in Seeds :
           /\ Random = RandomEngine(InSeed)
           /\ Twin = RandomEngine(InSeed)
    /\ call = [op |-> "RandomUtility", args |-> <<>>]
    /\ prev = Random
    /\ out = <<"RandomUtility", "void">>
    /\ outTwin = <<"RandomUtility", "void">>
    /\ lag = FALSE
    /\ Local = [t \in Threads |-> <<>>]

NextUtility ==
    \/ DoRandVectorNormalized
    \/ DoRandVector2DInCircle
    \/ DoRandVector2DOnCircle
    \/ DoRandPointInSphere
    \/ DoRandPointOnSphere
    \/ DoRandPointInCircle
    \/ DoRandPointOnCircle
    \/ DoRandQuat
    \/ DoRandRotator
    \/ DoRandArrayElement
    \/ DoRandArrayElementObject
    \/ DoGetRandomSelection
    \/ DoShuffleArray
    \/ DoShuffleArrayObject
    \/ DoShuffleString

SpecUtility == InitUtility /\ [][NextUtility]_vars

(* -------------- static operations called from several threads ---------- *)

\* RandomEngine::StaticRandInt, from the construction of LocalGenerator on
StaticRandInt(LocalGenerator, Min, Max) ==
    uniform_int_distribution(LocalGenerator, Min, Max)

\* RandomEngine::StaticRandFloat, from the construction of LocalGenerator on
StaticRandFloat(LocalGenerator, Min, Max) ==
    uniform_real_distribution(LocalGenerator, Min, Max)

\* RandomEngine::StaticNewGuid, from the construction of LocalGenerator on:
\* std::uniform_int_distribution<uint32>(0, UINT32_MAX) returns every word as
\* it is (here in units of WordUnit)
StaticNewGuid(LocalGenerator) ==
    LET G1 == Next1(LocalGenerator)
        G2 == Next1(G1)
        G3 == Next1(G2)
    IN  [G |-> Next1(G3), r |-> <<Word(LocalGenerator), Word(G1), Word(G2), Word(G3)>>]

StaticCalls ==
    CallsOf("StaticRandInt", {<<1, 6>>}) \cup CallsOf("StaticRandFloat", {<<0, One>>})
    \cup CallsOf("StaticNewGuid", {<<>>}) \cup CallsOf("StaticNewSeed", {<<>>})

\* what static call c computes from its LocalGenerator
StaticResult(c, LocalGenerator) ==
    CASE c.op = "StaticRandInt" -> StaticRandInt(LocalGenerator, c.args[1], c.args[2])
      [] c.op = "StaticRandFloat" -> StaticRandFloat(LocalGenerator, c.args[1], c.args[2])
      [] c.op = "StaticNewGuid" -> StaticNewGuid(LocalGenerator)

\* thread t enters a static operation: StaticNewSeed() makes its own
\* std::random_device and returns what it reads, and every other operation
\* constructs its LocalGenerator from that value
StaticBegin(t) ==
    /\ Local[t] = <<>>
    /\ \E c \in StaticCalls, StaticNewSeed \in Seeds :
           Local' = [Local EXCEPT ![t] =
               IF c.op = "StaticNewSeed"
               THEN <<[pc |-> "return", call |-> c, LocalGenerator |-> <<>>,
                       r |-> <<c.op, StaticNewSeed>>]>>
               ELSE <<[pc |-> "draw", call |-> c,
                       LocalGenerator |-> <<mt19937(StaticNewSeed)>>, r |-> <<>>]>>]
    /\ UNCHANGED <<Random, Twin, call, prev, out, outTwin, lag>>

\* the draw of a static operation taken from the generator of the engine
\* instance, as if the operations shared one generator with it
StaticDrawShared(t) ==
    /\ Local[t] # <<>>
    /\ Local[t][1].pc = "draw"
    /\ LET res == StaticResult(Local[t][1].call, Random.Generator)
       IN  /\ InWindow(res.G.pos)
           /\ Local' = [Local EXCEPT ![t] =
                  <<[@[1] EXCEPT !.pc = "return", !.r = <<Local[t][1].call.op, res.r>>]>>]
           /\ Random' = [Random EXCEPT !.Generator = res.G]
    /\ UNCHANGED <<Twin, call, prev, out, outTwin, lag>>

\* thread t draws from its LocalGenerator
StaticDraw(t) ==
    /\ Local[t] # <<>>
    /\ Local[t][1].pc = "draw"
    /\ LET res == StaticResult(Local[t][1].call, Local[t][1].LocalGenerator[1])
       IN  Local' = [Local EXCEPT ![t] =
               <<[@[1] EXCEPT !.pc = "return", !.LocalGenerator = <<res.G>>,
                              !.r = <<Local[t][1].call.op, res.r>>]>>]
    /\ UNCHANGED <<Random, Twin, call, prev, out, outTwin, lag>>

\* thread t returns: its locals are destroyed
StaticReturn(t) ==
    /\ Local[t] # <<>>
    /\ Local[t][1].pc = "return"
    /\ Local' = [Local EXCEPT ![t] = <<>>]
    /\ UNCHANGED <<Random, Twin, call, prev, out, outTwin, lag>>

\* static calls on two threads, interleaved with operations on the engine
NextStatic ==
    \/ \E t \in Threads : StaticBegin(t)
    \/ \E t \in Threads : StaticDraw(t)
    \/ \E t \in Threads : StaticReturn(t)
    \/ DoRandGaussian
    \/ DoReset
    \/ SetSeed

SpecStatic == Init /\ [][NextStatic]_vars

(* ------------------------------- claims -------------------------------- *)

Replacements ==
    {"Initialize", "SetSeed", "RerollSeed", "InitializeWithSeed",
     "CreateRandomEngineObject"}

C2_ReplayEquivalence ==
    call.op = "JumpToState" =>
        Random.Generator = Advance(Reset(prev), call.args[1]).Generator

\* C3: the generator's position is a function of seed and drawCount: the live
\* engine continues exactly like RandomEngine(GetRootSeed()) after
\* Advance(GetCurrentState()).
C3_PositionFromCount ==
    Random.Generator =
        Advance(RandomEngine(GetRootSeed(Random)), GetCurrentState(Random)).Generator

\* C4: drawCount is the number of words taken from the generator since
\* construction or the last Reset; RandInt, RandFloat, RandBool and
\* RandGaussian each take exactly one word and add exactly 1, and
\* Discard(n)/Advance(n) take n words and add n.
C4_CountIsWordsConsumed ==
    /\ Random.Generator.pos = GetCurrentState(Random)
    /\ call.op \in {"RandInt", "RandFloat", "RandBool", "RandGaussian"} =>
           /\ Random.Generator.pos = Add(prev.Generator.pos, U32(1))
           /\ GetCurrentState(Random) = Add32(GetCurrentState(prev), U32(1))
    /\ call.op \in {"Discard", "Advance"} =>
           /\ Random.Generator.pos = Add(prev.Generator.pos, call.args[1])
           /\ GetCurrentState(Random) = Add32(GetCurrentState(prev), call.args[1])

\* C5: no operation other than Reset lowers drawCount: every draw, every
\* Discard(n)/Advance(n) and every JumpToState leaves it at or above its
\* previous value, also when the 32-bit counter is near its maximum.
C5_CountNeverDecreases ==
    call.op \notin Replacements \cup {"Reset"} =>
        LessEq(GetCurrentState(prev), GetCurrentState(Random))

\* C6: no operation of the engine changes the stored seed; only the
\* replacement of the whole engine does.
C6_SeedUnchanged ==
    call.op \notin Replacements => GetRootSeed(Random) = GetRootSeed(prev)

\* a Reset, or a backward JumpToState, of an engine with a seed other than 0
\* that had drawn
C6_Witness ==
    /\ call.op \in {"Reset", "JumpToState"}
    /\ GetCurrentState(prev) # U32(0)
    /\ GetCurrentState(Random) = U32(0)
    /\ GetRootSeed(Random) # 0

\* the engines with seed s whose generator stands at one of the explored
\* positions below 2^32
EnginesAtAnyPosition ==
    {[RandomEngine(s) EXCEPT !.Generator.pos = U32(p)] :
        s \in Seeds, p \in 0 .. MaxPos}

\* C7: RandInt(Min, Max) with Min <= Max returns r with Min <= r <= Max, and
\* some generator output gives Min and some gives Max.
C7_RandIntInclusive ==
    call.op = "RandInt" =>
        LET Min == call.args[1]
            Max == call.args[2]
        IN  /\ Min <= out[2] /\ out[2] <= Max
            /\ \E E \in EnginesAtAnyPosition : RandInt(E, Min, Max).r = Min
            /\ \E E \in EnginesAtAnyPosition : RandInt(E, Min, Max).r = Max

\* RandInt with Min < Max returned Max after at least one rejected word
C7_Witness ==
    /\ call.op = "RandInt"
    /\ call.args[1] < call.args[2]
    /\ out[2] = call.args[2]
    /\ Less(Add(prev.Generator.pos, U32(1)), Random.Generator.pos)

\* C8: RandFloat(Min, Max) with Min < Max is never outside [Min, Max], and
\* both endpoints, Max included, are results for some generator output.
C8_RandFloatClosedInterval ==
    call.op = "RandFloat" =>
        LET Min == call.args[1]
            Max == call.args[2]
        IN  /\ Min <= out[2] /\ out[2] <= Max
            /\ \E E \in EnginesAtAnyPosition : RandFloat(E, Min, Max).r = Min
            /\ \E E \in EnginesAtAnyPosition : RandFloat(E, Min, Max).r = Max

\* C9: RandFloatBiased with BiasForce <= 1 returns what RandFloat(Min, Max)
\* returns from the same engine state and leaves the engine as RandFloat
\* leaves it, one draw later, whatever BiasedToward is.
C9_BiasForceOneIsRandFloat ==
    (call.op = "RandFloatBiased" /\ call.args[4] <= 1) =>
        LET f == RandFloat(prev, call.args[1], call.args[2])
        IN  /\ out[2] = f.r
            /\ Random = f.E
            /\ GetCurrentState(Random) = Add32(GetCurrentState(prev), U32(1))

\* RandFloatBiased with a force raised from 0 to 1 and a bias point outside
\* the range has run on an engine that had drawn before
C9_Witness ==
    /\ call.op = "RandFloatBiased"
    /\ call.args[4] <= 1
    /\ call.args[3] > call.args[2]
    /\ GetCurrentState(prev) # U32(0)

\* the results of n successive RandGaussian(Mean, StdDev) calls from E on
RECURSIVE GaussianDraws(_, _, _, _)
GaussianDraws(E, Mean, StdDev, n) ==
    IF n = 0
    THEN <<>>
    ELSE LET g == RandGaussian(E, Mean, StdDev)
         IN  <<g>> \o GaussianDraws(g.E, Mean, StdDev, n - 1)

\* the Gaussian draws RandGaussianClamped may make for the arguments a from E
ClampedDraws(E, a) ==
    GaussianDraws(E, Clamp(a[3], a[1], a[2]), SpreadStdDev(a[1], a[2], a[4]),
                  FMax(a[5], 1))

\* the attempts among ds that fall inside [Min, Max]
Hits(ds, Min, Max) == {i \in 1 .. Len(ds) : ds[i].r >= Min /\ ds[i].r <= Max}

\* C10: RandGaussianClamped(Min, Max, Bias, Spread, Attempts) with Min <= Max
\* returns a value in [Min, Max] after at least 1 and at most max(Attempts, 1)
\* Gaussian draws: the first draw in range, or, when every attempt misses, the
\* last draw clamped, with the engine left where the last draw left it.
C10_ClampedGaussian ==
    call.op = "RandGaussianClamped" =>
        LET Min == call.args[1]
            Max == call.args[2]
            ds == ClampedDraws(prev, call.args)
            hits == Hits(ds, Min, Max)
            k == IF hits = {} THEN Len(ds)
                 ELSE CHOOSE i \in hits : \A j \in hits : i <= j
        IN  /\ Min <= out[2] /\ out[2] <= Max
            /\ out[2] = IF hits = {} THEN Clamp(ds[k].r, Min, Max) ELSE ds[k].r
            /\ Random = ds[k].E
            /\ GetCurrentState(Random) = Add32(GetCurrentState(prev), U32(k))
            /\ 1 <= k /\ k <= FMax(call.args[5], 1)

\* every one of two or more attempts missed and the last draw was clamped
C10_Witness ==
    /\ call.op = "RandGaussianClamped"
    /\ call.args[5] >= 2
    /\ Hits(ClampedDraws(prev, call.args), call.args[1], call.args[2]) = {}
    /\ out[2] \in {call.args[1], call.args[2]}

\* the 5 Gaussian draws RandGaussianTruncated may make for the arguments a
\* from E
TruncatedDraws(E, a) ==
    GaussianDraws(E, Clamp(a[3], a[1], a[2]), SpreadStdDev(a[1], a[2], a[4]), 5)

\* the least element of a non-empty set of integers
Least(S) == CHOOSE i \in S : \A j \in S : i <= j

\* C11: RandGaussianTruncated(Min, Max, Bias, Spread) with Min <= Max returns
\* a value in [Min, Max]: the first of up to 5 Gaussian draws that falls in
\* range, and, only when all 5 miss, one further RandFloat(Min, Max) draw
\* (drawCount + 6 in total), never a clamped Gaussian value.
C11_TruncatedGaussian ==
    call.op = "RandGaussianTruncated" =>
        LET Min == call.args[1]
            Max == call.args[2]
            ds == TruncatedDraws(prev, call.args)
            hits == Hits(ds, Min, Max)
            f == RandFloat(ds[5].E, Min, Max)
        IN  /\ Min <= out[2] /\ out[2] <= Max
            /\ hits # {} =>
                   /\ out[2] = ds[Least(hits)].r
                   /\ Random = ds[Least(hits)].E
                   /\ GetCurrentState(Random)
                          = Add32(GetCurrentState(prev), U32(Least(hits)))
            /\ hits = {} =>
                   /\ out[2] = f.r
                   /\ Random = f.E
                   /\ GetCurrentState(Random) = Add32(GetCurrentState(prev), U32(6))

\* all 5 Gaussian draws missed and the uniform fallback returned a value that
\* is not the clamped last draw
C11_Witness ==
    /\ call.op = "RandGaussianTruncated"
    /\ LET ds == TruncatedDraws(prev, call.args)
       IN  /\ Hits(ds, call.args[1], call.args[2]) = {}
           /\ out[2] # Clamp(ds[5].r, call.args[1], call.args[2])
           /\ out[2] > call.args[1]

\* no entry of Weights is positive (in particular, Weights is empty)
NoPositiveWeight(Weights) == \A i \in 1 .. Len(Weights) : Weights[i] <= 0

\* C12: RandWeighted on an empty array, or on an array whose weights are all
\* <= 0, returns -1 and leaves generator position and drawCount as they were.
C12_WeightedNoSelection ==
    (call.op = "RandWeighted" /\ NoPositiveWeight(call.args[1])) =>
        /\ out[2] = -1
        /\ Random = prev

\* RandWeighted has run on a non-empty array without a positive weight, on an
\* engine that had drawn before
C12_Witness ==
    /\ call.op = "RandWeighted"
    /\ Len(call.args[1]) > 0
    /\ NoPositiveWeight(call.args[1])
    /\ GetCurrentState(prev) # U32(0)
    /\ out[2] = -1

\* the sum of the positive weights among the first i entries of Weights
RECURSIVE CumulativePositive(_, _)
CumulativePositive(Weights, i) ==
    IF i = 0
    THEN 0
    ELSE CumulativePositive(Weights, i - 1)
         + (IF Weights[i] > 0 THEN Weights[i] ELSE 0)

\* the 1-based positions of positive weights whose cumulative sum of positive
\* weights reaches v
Reaching(Weights, v) ==
    {i \in 1 .. Len(Weights) :
        Weights[i] > 0 /\ CumulativePositive(Weights, i) >= v}

\* C13: RandWeighted on an array with a positive weight makes exactly one draw
\* v in [0, sum of the positive weights] and returns the first index with a
\* positive weight whose cumulative sum of positive weights is >= v; such an
\* index always exists (the trailing fallback is not taken), lies in
\* [0, Num - 1] and never has a zero or negative weight.
C13_WeightedSelection ==
    (call.op = "RandWeighted" /\ ~NoPositiveWeight(call.args[1])) =>
        LET Weights == call.args[1]
            Total == CumulativePositive(Weights, Len(Weights))
            f == RandFloat(prev, 0, Total)
        IN  /\ Random = f.E
            /\ GetCurrentState(Random) = Add32(GetCurrentState(prev), U32(1))
            /\ 0 <= f.r /\ f.r <= Total
            /\ Reaching(Weights, f.r) # {}
            /\ out[2] = Least(Reaching(Weights, f.r)) - 1
            /\ 0 <= out[2] /\ out[2] <= Len(Weights) - 1
            /\ Weights[out[2] + 1] > 0

\* the draw was 0 on an array that begins with zero weights, and the index of
\* the first positive weight was returned
C13_Witness ==
    /\ call.op = "RandWeighted"
    /\ call.args[1] = <<0, 0, 10 * One>>
    /\ RandFloat(prev, 0, 10 * One).r = 0
    /\ out[2] = 2

\* the results of one RandInt(1, Sides[i]) call after the other from E on, for
\* a sequence Sides of numbers of sides
RECURSIVE DiceDraws(_, _)
DiceDraws(E, Sides) ==
    IF Sides = <<>>
    THEN <<>>
    ELSE LET d == RandInt(E, 1, Head(Sides))
         IN  <<d>> \o DiceDraws(d.E, Tail(Sides))

\* Integers of any size are written <<h, l>> for h * ExactBase + l with
\* 0 <= l < ExactBase, so that sums beyond 32 bits can be stated.
ExactBase == (INT32_MAX \div 32768) + 1

Exact(x) == <<x \div ExactBase, x % ExactBase>>

ExactNorm(p) == <<p[1] + (p[2] \div ExactBase), p[2] % ExactBase>>

ExactLessEq(p, q) == p[1] < q[1] \/ (p[1] = q[1] /\ p[2] <= q[2])

\* n * x for a small n
ExactTimes(n, x) == ExactNorm(<<n * (x \div ExactBase), n * (x % ExactBase)>>)

\* the sum of the numbers of the sequence xs
RECURSIVE ExactSum(_)
ExactSum(xs) ==
    IF xs = <<>>
    THEN <<0, 0>>
    ELSE LET t == ExactSum(Tail(xs))
         IN  ExactNorm(<<t[1] + (Head(xs) \div ExactBase),
                         t[2] + (Head(xs) % ExactBase)>>)

\* the values returned by the draws ds
Values(ds) == [i \in 1 .. Len(ds) |-> ds[i].r]

\* C14: RollDice(NumDice, Sides) with NumDice >= 1 and Sides >= 1 makes exactly
\* NumDice RandInt(1, Sides) draws, drawCount growing by NumDice, and returns
\* their sum, a number in [NumDice, NumDice * Sides].
C14_RollDiceSum ==
    (call.op = "RollDice" /\ call.args[1] >= 1 /\ call.args[2] >= 1) =>
        LET NumDice == call.args[1]
            Sides == call.args[2]
            ds == DiceDraws(prev, [i \in 1 .. NumDice |-> Sides])
        IN  /\ Random = ds[NumDice].E
            /\ GetCurrentState(Random) = Add32(GetCurrentState(prev), U32(NumDice))
            /\ Exact(out[2]) = ExactSum(Values(ds))
            /\ ExactLessEq(Exact(NumDice), Exact(out[2]))
            /\ ExactLessEq(Exact(out[2]), ExactTimes(NumDice, Sides))

\* C15: RollDice with NumDice <= 0 or Sides <= 0 returns 0 and leaves the
\* engine as it was: no draw, drawCount unchanged.
C15_RollDiceInvalid ==
    (call.op = "RollDice" /\ (call.args[1] <= 0 \/ call.args[2] <= 0)) =>
        /\ out[2] = 0
        /\ Random = prev

\* RollDice was asked for two dice with no sides on an engine that had drawn
C15_Witness ==
    /\ call.op = "RollDice"
    /\ call.args[1] >= 1
    /\ call.args[2] <= 0
    /\ GetCurrentState(prev) # U32(0)
    /\ out[2] = 0

\* Sides >= 1
Rollable(Sides) == Sides >= 1

\* C16: RollDiceArray returns 0 for an empty array; otherwise it makes one
\* RandInt(1, Sides) draw for each entry with Sides >= 1, in array order, and
\* none for the other entries: drawCount grows by the number of entries >= 1
\* and the result lies between that number and the sum of those entries.
C16_RollDiceArray ==
    call.op = "RollDiceArray" =>
        LET DiceArray == call.args[1]
            rolled == SelectSeq(DiceArray, Rollable)
            n == Len(rolled)
            ds == DiceDraws(prev, rolled)
        IN  /\ DiceArray = <<>> => out[2] = 0
            /\ Random = IF n = 0 THEN prev ELSE ds[n].E
            /\ GetCurrentState(Random) = Add32(GetCurrentState(prev), U32(n))
            /\ ExactLessEq(Exact(n), Exact(out[2]))
            /\ ExactLessEq(Exact(out[2]), ExactSum(rolled))

\* C17: Discard(n) and Advance(n) are interchangeable: from the same engine
\* state each advances the generator by n words and adds n to drawCount, and
\* the resulting states are identical; Advance(a) followed by Advance(b)
\* yields the state Advance(a + b) yields.
C17_DiscardAdvance ==
    /\ \A n \in Counts :
           /\ Discard(Random, n) = Advance(Random, n)
           /\ Advance(Random, n).Generator.pos = Add(Random.Generator.pos, n)
           /\ Advance(Random, n).Generator.seed = Random.Generator.seed
           /\ GetCurrentState(Advance(Random, n))
                  = Add32(GetCurrentState(Random), n)
           /\ GetRootSeed(Advance(Random, n)) = GetRootSeed(Random)
    /\ call.op \in {"Discard", "Advance"} =>
           /\ Random = Discard(prev, call.args[1])
           /\ Random = Advance(prev, call.args[1])
    /\ \A a \in Counts \cup Targets, b \in Counts \cup Targets :
           LessEq(Add(a, b), UINT32_MAX) =>
               Advance(Advance(Random, a), b) = Advance(Random, Add(a, b))

\* Discard(2) has run on an engine whose generator was ahead of its count
C17_Witness ==
    /\ call = [op |-> "Discard", args |-> <<U32(2)>>]
    /\ Less(GetCurrentState(prev), prev.Generator.pos)
    /\ Random = Advance(Advance(prev, U32(1)), U32(1))

\* C18: Reset() returns the engine to the state of a freshly constructed
\* engine with the same seed: drawCount 0, seed unchanged, generator at the
\* start of the seed's stream, so that the outputs that follow are those of
\* RandomEngine(seed).
C18_ResetIsFresh ==
    call.op = "Reset" =>
        /\ Random = RandomEngine(GetRootSeed(prev))
        /\ GetCurrentState(Random) = U32(0)
        /\ GetRootSeed(Random) = GetRootSeed(prev)
        /\ \A c \in DrawCalls :
               Apply(Random, c) = Apply(RandomEngine(GetRootSeed(prev)), c)

\* Reset has run on an engine with a seed other than 0 whose generator was
\* ahead of its count
C18_Witness ==
    /\ call.op = "Reset"
    /\ GetRootSeed(prev) # 0
    /\ Less(GetCurrentState(prev), prev.Generator.pos)
    /\ Less(U32(1), GetCurrentState(prev))

\* C19: after JumpToState(target), GetCurrentState() = target; when target is
\* the current drawCount nothing changes, when it is larger the generator is
\* advanced by the difference and not reset, and when it is smaller the engine
\* is reset and then advanced by target.
C19_JumpToState ==
    call.op = "JumpToState" =>
        LET target == call.args[1]
            count == GetCurrentState(prev)
        IN  /\ GetCurrentState(Random) = target
            /\ GetRootSeed(Random) = GetRootSeed(prev)
            /\ target = count => Random = prev
            /\ Less(count, target) =>
                   Random.Generator = discard(prev.Generator, Sub32(target, count))
            /\ Less(target, count) => Random = Advance(Reset(prev), target)

\* a forward jump has run on an engine whose generator was ahead of its count
C19_Witness ==
    /\ call.op = "JumpToState"
    /\ Less(GetCurrentState(prev), call.args[1])
    /\ Less(U32(0), GetCurrentState(prev))
    /\ Less(GetCurrentState(prev), prev.Generator.pos)

\* C20: after SetSeed(s) on the subsystem, or InitializeWithSeed(s) with
\* s # 0 on an engine object, the engine is a fresh RandomEngine(s): its root
\* seed is s, its draw count is 0, every draw returns what it returns on a
\* fresh engine, and nothing of the old engine survives.
C20_ReseedIsFresh ==
    \/ call.op = "SetSeed"
    \/ (call.op = "InitializeWithSeed" /\ call.args[1] # 0)
    => LET s == call.args[1]
       IN  /\ GetRootSeed(Random) = s
           /\ GetCurrentState(Random) = U32(0)
           /\ Random.Generator = mt19937(s)
           /\ \A c \in DrawCalls : Apply(Random, c) = Apply(RandomEngine(s), c)
           /\ Random = RandomEngine(s)

\* an engine that had drawn, and whose generator was ahead of its count, has
\* been reseeded with a seed other than its own
C20_Witness ==
    /\ call.op \in {"SetSeed", "InitializeWithSeed"}
    /\ call.args[1] # 0
    /\ call.args[1] # GetRootSeed(prev)
    /\ Less(U32(1), GetCurrentState(prev))
    /\ Less(GetCurrentState(prev), prev.Generator.pos)

Shuffles == {"ShuffleArray", "ShuffleArrayObject", "ShuffleString"}

\* the values of j that a shuffle starting at index i draws from engine E,
\* in the order drawn
RECURSIVE ShuffleDraws(_, _)
ShuffleDraws(E, i) ==
    IF i > 0
    THEN LET d == RandInt(E, 0, i)
         IN  <<d.r>> \o ShuffleDraws(d.E, i - 1)
    ELSE <<>>

\* Array after the swaps of positions Len(Array) - k and js[k], from the
\* k-th on
RECURSIVE SwapsFrom(_, _, _)
SwapsFrom(Array, js, k) ==
    IF k > Len(js)
    THEN Array
    ELSE SwapsFrom(Swap(Array, Len(Array) - k, js[k]), js, k + 1)

\* the sequences of draws (j in [0, i] for i = n-1 down to 1)
DrawSequences(n) ==
    {js \in [1 .. n - 1 -> 0 .. n - 1] : \A k \in 1 .. n - 1 : js[k] <= n - k}

\* the rearrangements of Array
Rearrangements(Array) ==
    LET n == Len(Array)
    IN  {[k \in 1 .. n |-> Array[p[k]]] :
            p \in {q \in [1 .. n -> 1 .. n] : \A a, b \in 1 .. n : q[a] = q[b] => a = b}}

Distinct(Array) ==
    \A a, b \in 1 .. Len(Array) : Array[a] = Array[b] => a = b

\* C21: the shuffle of n distinct elements returns the input rearranged by the
\* swaps of its draws, and the n! possible sequences of draws map one-to-one
\* onto the n! permutations of the input: every permutation arises from
\* exactly one sequence of draws.
C21_ShuffleBijection ==
    call.op \in Shuffles /\ Distinct(call.args[1]) =>
        LET Array == call.args[1]
            n == Len(Array)
            js == ShuffleDraws(prev, n - 1)
        IN  /\ js \in DrawSequences(n)
            /\ out[2] = SwapsFrom(Array, js, 1)
            /\ \A p \in Rearrangements(Array) :
                   Cardinality({s \in DrawSequences(n) : SwapsFrom(Array, s, 1) = p}) = 1

\* three distinct elements have been shuffled into another order by an engine
\* that had drawn before
C21_Witness ==
    /\ call.op \in Shuffles
    /\ call.args[1] = <<1, 2, 3>>
    /\ out[2] # <<1, 2, 3>>
    /\ Less(U32(0), GetCurrentState(prev))

\* C22: a step of a static operation (StaticRandInt, StaticRandFloat,
\* StaticNewGuid, StaticNewSeed), whatever it is interleaved with, leaves the
\* seed, generator and count of every engine instance and the locals of every
\* other thread unchanged, and what it draws is what a generator freshly made
\* from its own seed gives; a step of an engine leaves the locals of the
\* static calls unchanged.
C22_StaticsShareNothing ==
    [][/\ Local' # Local => Random' = Random /\ Twin' = Twin
       /\ Random' # Random => Local' = Local
       /\ \A t \in Threads :
              Local'[t] # Local[t] =>
                  /\ \A u \in Threads \ {t} : Local'[u] = Local[u]
                  /\ (Local[t] # <<>> /\ Local'[t] # <<>>) =>
                         Local'[t][1].r[2] =
                             StaticResult(Local[t][1].call,
                                          mt19937(Local[t][1].LocalGenerator[1].seed)).r
      ]_vars

\* two static calls with different seeds are in progress at once, one about
\* to draw and one having drawn, beside an engine that has drawn
C22_Witness ==
    /\ Local[1] # <<>> /\ Local[2] # <<>>
    /\ Local[1][1].pc = "draw" /\ Local[2][1].pc = "return"
    /\ Local[2][1].call.op = "StaticRandInt"
    /\ Local[1][1].LocalGenerator[1].seed # Local[2][1].LocalGenerator[1].seed
    /\ Less(U32(1), GetCurrentState(Random))

\* C23: RandBool(Probability) answers as RandBool of Probability clamped into
\* [0, 1] answers; for Probability <= 0 it is false and for Probability >= 1
\* it is true, whatever word the generator gives; and it takes exactly one
\* word and counts one draw.
C23_RandBoolExtremes ==
    call.op = "RandBool" =>
        LET Probability == call.args[1]
        IN  /\ out[2] = RandBool(prev, Clamp(Probability, 0, One)).r
            /\ Probability <= 0 =>
                   /\ out[2] = FALSE
                   /\ \A E \in EnginesAtAnyPosition : RandBool(E, Probability).r = FALSE
            /\ Probability >= One =>
                   /\ out[2] = TRUE
                   /\ \A E \in EnginesAtAnyPosition : RandBool(E, Probability).r = TRUE
            /\ Random.Generator = Next1(prev.Generator)
            /\ GetCurrentState(Random) = Add32(GetCurrentState(prev), U32(1))

\* RandBool with a probability below 0 has run on the smallest word, or with
\* a probability above 1 on the largest, on an engine that had drawn before
C23_Witness ==
    /\ call.op = "RandBool"
    /\ \/ call.args[1] < 0 /\ Word(prev.Generator) = 0
       \/ call.args[1] > One /\ Word(prev.Generator) = WordCount - 1
    /\ Less(U32(0), GetCurrentState(prev))

\* the results of n successive RandFloat(Min, Max) calls from E on
RECURSIVE FloatDraws(_, _, _, _)
FloatDraws(E, Min, Max, n) ==
    IF n = 0
    THEN <<>>
    ELSE LET d == RandFloat(E, Min, Max)
         IN  <<d.r>> \o FloatDraws(d.E, Min, Max, n - 1)

\* C24: RandFloatBiased with BiasForce = f > 1 takes exactly f draws and
\* returns the earliest of the samples whose distance to BiasedToward clamped
\* into [Min, Max] is the least among the f samples; the result lies in
\* [Min, Max].
C24_BiasedClosestSample ==
    (call.op = "RandFloatBiased" /\ call.args[4] > 1) =>
        LET Min == call.args[1]
            Max == call.args[2]
            f == call.args[4]
            target == Clamp(call.args[3], Min, Max)
            samples == FloatDraws(prev, Min, Max, f)
        IN  /\ GetCurrentState(Random) = Add32(GetCurrentState(prev), U32(f))
            /\ Random.Generator = discard(prev.Generator, U32(f))
            /\ \E k \in 1 .. f :
                   /\ out[2] = samples[k]
                   /\ \A m \in 1 .. f :
                          Abs(samples[k] - target) <= Abs(samples[m] - target)
                   /\ \A m \in 1 .. k - 1 :
                          Abs(samples[k] - target) < Abs(samples[m] - target)
            /\ Min <= out[2] /\ out[2] <= Max

\* of three samples, two different ones were equally close to the bias point
\* and closer than the third
C24_Witness ==
    /\ call.op = "RandFloatBiased"
    /\ call.args[4] = 3
    /\ LET target == Clamp(call.args[3], call.args[1], call.args[2])
           samples == FloatDraws(prev, call.args[1], call.args[2], 3)
       IN  \E k, m \in 1 .. 3 :
               /\ k < m
               /\ out[2] = samples[k]
               /\ samples[m] # samples[k]
               /\ Abs(samples[m] - target) = Abs(samples[k] - target)
               /\ \E n \in 1 .. 3 : Abs(samples[n] - target) > Abs(samples[k] - target)

\* C25: RandBoolBiased(Probability, BiasTowardTrue, BiasForce) with a force
\* of 1 returns what RandBool(Probability) returns and leaves the engine as
\* RandBool leaves it, one draw later; with a force f > 1 it leaves the engine
\* as RandFloatBiased(0, 1, target, f) leaves it, f draws later, and is true
\* exactly when that value is below Probability clamped into [0, 1], where
\* target is half of the clamped Probability when biasing toward true and the
\* midpoint between it and 1 when biasing toward false.
C25_RandBoolBiased ==
    call.op = "RandBoolBiased" =>
        LET Probability == Clamp(call.args[1], 0, One)
            f == call.args[3]
            target == IF call.args[2]
                      THEN RoundDiv(Probability, 2)
                      ELSE Probability + RoundDiv(One - Probability, 2)
            plain == RandBool(prev, call.args[1])
            biased == RandFloatBiased(prev, 0, One, target, f)
        IN  /\ f = 1 =>
                   /\ out[2] = plain.r
                   /\ Random = plain.E
                   /\ GetCurrentState(Random) = Add32(GetCurrentState(prev), U32(1))
            /\ f > 1 =>
                   /\ out[2] = (biased.r < Probability)
                   /\ Random = biased.E
                   /\ GetCurrentState(Random) = Add32(GetCurrentState(prev), U32(f))
                   /\ Random.Generator = discard(prev.Generator, U32(f))

\* a force of 3 toward false made the answer differ from the answer RandBool
\* gives from the same engine state
C25_Witness ==
    /\ call.op = "RandBoolBiased"
    /\ call.args[3] = 3
    /\ call.args[2] = FALSE
    /\ out[2] = FALSE
    /\ RandBool(prev, call.args[1]).r = TRUE

\* the number of draws the claim gives for each geometric sampler
SamplerDraws ==
    [RandVectorNormalized |-> 2, RandPointOnSphere |-> 2, RandPointInSphere |-> 3,
     RandVector2DOnCircle |-> 1, RandPointOnCircle |-> 1,
     RandVector2DInCircle |-> 2, RandPointInCircle |-> 2,
     RandQuat |-> 3, RandRotator |-> 3]

Occurrences(Array, x) == Cardinality({k \in 1 .. Len(Array) : Array[k] = x})

\* C27: a shuffle of n elements makes exactly max(n - 1, 0) draws, the k-th
\* of them for index i = n - k with 1 <= i <= n - 1 and a drawn j with
\* 0 <= j <= i; it returns the input after the swaps of i and j; arrays of
\* length 0 or 1 come back as they were, with no draw; and the result holds
\* the same elements as the input, each as many times.
C27_ShuffleIsPermutation ==
    call.op \in Shuffles =>
        LET Array == call.args[1]
            n == Len(Array)
            draws == IF n > 1 THEN n - 1 ELSE 0
            js == ShuffleDraws(prev, n - 1)
        IN  /\ GetCurrentState(Random) = Add32(GetCurrentState(prev), U32(draws))
            /\ Len(js) = draws
            /\ \A k \in 1 .. draws :
                   /\ 1 <= n - k /\ n - k <= n - 1
                   /\ 0 <= js[k] /\ js[k] <= n - k
            /\ out[2] = SwapsFrom(Array, js, 1)
            /\ n <= 1 => out[2] = Array /\ Random = prev
            /\ Len(out[2]) = n
            /\ \A k \in 1 .. n : Occurrences(out[2], Array[k]) = Occurrences(Array, Array[k])

\* an array with a repeated element came back in another order, after a
\* shuffle in which a word was rejected
C27_Witness ==
    /\ call.op \in Shuffles
    /\ call.args[1] = <<1, 1, 2>>
    /\ out[2] # <<1, 1, 2>>
    /\ Less(Add(prev.Generator.pos, U32(2)), Random.Generator.pos)

Selections == {"RandArrayElement", "RandArrayElementObject", "GetRandomSelection"}

\* C28: a selection from a non-empty array of n elements makes exactly one
\* draw, RandInt(0, n - 1), and returns the element at the index drawn, which
\* lies in [0, n - 1]; from an empty array it returns the default or null
\* value and leaves the engine as it was.
C28_ArraySelection ==
    call.op \in Selections =>
        LET Array == call.args[1]
            n == Len(Array)
            RandomIndex == RandInt(prev, 0, n - 1)
        IN  /\ n = 0 =>
                   /\ out[2] = IF call.op = "RandArrayElement"
                               THEN DefaultElement ELSE nullptr
                   /\ Random = prev
            /\ n > 0 =>
                   /\ Random = RandomIndex.E
                   /\ GetCurrentState(Random) = Add32(GetCurrentState(prev), U32(1))
                   /\ 0 <= RandomIndex.r /\ RandomIndex.r <= n - 1
                   /\ out[2] = Array[RandomIndex.r + 1]
                   /\ \E k \in 1 .. n : out[2] = Array[k]

\* the last of three elements was selected by an engine that had drawn
\* before
C28_Witness ==
    /\ call.op \in Selections
    /\ call.args[1] = <<1, 2, 3>>
    /\ out[2] = 3
    /\ Less(U32(0), GetCurrentState(prev))

\* C29: the object CreateRandomEngineObject(Outer, Seed) returns is
\* initialized with Seed, whatever Seed is (0 included): its GetRootSeed() is
\* Seed and its engine is that of every other object created with Seed.
C29_CreateWithSeed ==
    call.op = "CreateRandomEngineObject" =>
        /\ GetRootSeed(Random) = call.args[1]
        /\ Random = RandomEngine(call.args[1])

\* the number of draws the claim allows the composite operation c
DrawBound(c) ==
    CASE c.op = "RandFloatBiased" -> FMax(c.args[4], 1)
      [] c.op = "RandGaussianClamped" -> FMax(c.args[5], 1)
      [] c.op = "RandGaussianTruncated" -> 6
      [] c.op = "RollDice" -> FMax(c.args[1], 0)
      [] c.op = "RollDiceArray" -> Len(c.args[1])
      [] c.op = "RandWeighted" -> 1

Composites ==
    {"RandFloatBiased", "RandGaussianClamped", "RandGaussianTruncated",
     "RollDice", "RollDiceArray", "RandWeighted"}

\* C30: a composite operation takes from the generator at most as many
\* outputs as its caller-supplied count allows: RandFloatBiased
\* max(BiasForce, 1), RandGaussianClamped max(Attempts, 1),
\* RandGaussianTruncated 6, RollDice NumDice, RollDiceArray the length of the
\* array, RandWeighted 1; nothing more is taken because of the values drawn.
C30_BoundedDraws ==
    call.op \in Composites =>
        LessEq(Random.Generator.pos, Add(prev.Generator.pos, U32(DrawBound(call))))

====
